---- MODULE Spec2Model ----
(***************************************************************************)
(* A model of src/mi-bot/app.py: the POST /chat handler (handle_chat), the *)
(* per-user lock registry, the conversation store, the reply pipeline      *)
(* (handle_system_message, generate_ia_response) and the API key manager.  *)
(*                                                                         *)
(* Text is modelled by TLA+ strings, one character per code point.  The    *)
(* emoji of the source are written with one ASCII character each:          *)
(*     "@" U+1F609   "#" U+1F618   "$" U+1F60A   "%" U+1F525               *)
(*     "^" U+1F608   "&" U+1F60F   "+" U+1F605   "~" U+1F97A               *)
(* Of these only "~" (U+1F97A) lies outside the ranges of EMOJI_PATTERN.   *)
(* The accented letters of the source are written likewise:                *)
(*     "{" U+00E1 (a acute)   "|" U+00ED (i acute)   "}" U+00FA (u acute)  *)
(* They are letters: \w of re matches them and str.lower() keeps them.     *)
(* The texts are ASCII.  A control character reaches a message or a user   *)
(* id as a JSON escape (handle_chat removes the raw ones from the body     *)
(* before it parses it) and the text of the chat API as it is.             *)
(***************************************************************************)
EXTENDS Integers, Sequences, FiniteSets, TLC

(***************************************************************************)
(* Bounds of the model.                                                    *)
(***************************************************************************)
\* Number of requests (worker threads, one request each) in a behaviour.
NumRequests == 2
\* Number of configured API keys (COHERE_API_KEYS).
NumKeys == 2
\* Number of database faults injected in a behaviour.
MaxFaults == 1

Procs == 1..NumRequests

(***************************************************************************)
(* Text: the str methods and re patterns the program uses.                 *)
(***************************************************************************)
Min(a, b) == IF a < b THEN a ELSE b
Max(a, b) == IF a < b THEN b ELSE a

UpperLetters == <<"A","B","C","D","E","F","G","H","I","J","K","L","M",
                  "N","O","P","Q","R","S","T","U","V","W","X","Y","Z">>
LowerLetters == <<"a","b","c","d","e","f","g","h","i","j","k","l","m",
                  "n","o","p","q","r","s","t","u","v","w","x","y","z">>
Digits == {"0","1","2","3","4","5","6","7","8","9"}

\* str.lower() on one character.
LowerChar(c) ==
    IF \E i \in 1..26 : UpperLetters[i] = c
    THEN LowerLetters[CHOOSE i \in 1..26 : UpperLetters[i] = c]
    ELSE c

\* str.lower(), character by character (the two halves of s in turn).
RECURSIVE Lower(_)
Lower(s) ==
    IF Len(s) <= 1 THEN LowerChar(s)
    ELSE Lower(SubSeq(s, 1, Len(s) \div 2))
         \o Lower(SubSeq(s, Len(s) \div 2 + 1, Len(s)))

\* The index of the first occurrence of sub in s, 0 when there is none
\* (str.find, counted from 1).
Find(sub, s) ==
    LET starts == { i \in 1..(Len(s) - Len(sub) + 1) :
                      SubSeq(s, i, i + Len(sub) - 1) = sub }
    IN  IF starts = {} THEN 0
        ELSE CHOOSE i \in starts : \A j \in starts : i <= j

\* sub in s
Contains(sub, s) == Find(sub, s) # 0

\* The characters str.strip() removes, those for which str.isspace() holds,
\* among the ASCII characters: the blank, tab, line feed, vertical tab
\* (U+000B), form feed, carriage return and the separators U+001C..U+001F.
\* The last five have no escape in a string and are written as they are.
Whitespace ==
    {" ", "\t", "\n", "\r", "\f", "", "", "", "", ""}

\* str.strip(): leading and trailing white space removed.
RECURSIVE LStrip(_)
LStrip(s) ==
    IF s # "" /\ SubSeq(s, 1, 1) \in Whitespace THEN LStrip(Tail(s)) ELSE s
RECURSIVE RStrip(_)
RStrip(s) ==
    IF s # "" /\ SubSeq(s, Len(s), Len(s)) \in Whitespace
    THEN RStrip(SubSeq(s, 1, Len(s) - 1)) ELSE s
Strip(s) == RStrip(LStrip(s))

\* str.replace(old, new): every occurrence, left to right, not overlapping.
RECURSIVE Replace(_, _, _)
Replace(s, old, new) ==
    LET i == Find(old, s)
    IN  IF i = 0 THEN s
        ELSE SubSeq(s, 1, i - 1) \o new
             \o Replace(SubSeq(s, i + Len(old), Len(s)), old, new)

\* s.split(sep, 1): the pieces, one when sep does not occur in s.
Split1(s, sep) ==
    LET i == Find(sep, s)
    IN  IF i = 0 THEN <<s>>
        ELSE <<SubSeq(s, 1, i - 1), SubSeq(s, i + Len(sep), Len(s))>>

\* The characters \w of re matches among those of the texts.
IsWordChar(c) ==
    \/ \E i \in 1..26 : c = UpperLetters[i] \/ c = LowerLetters[i]
    \/ c \in Digits
    \/ c \in {"_", "{", "|", "}"}

CharAt(s, i) == SubSeq(s, i, i)

(***************************************************************************)
(* Configuration: the module-level definitions and BotConfig.              *)
(***************************************************************************)
\* The characters EMOJI_PATTERN matches (see the table at the top).
EMOJI_PATTERN == {"@", "#", "$", "%", "^", "&", "+"}
RANDOM_EMOJIS == <<" @", " #", " $", " %", " ^", " &", " ~">>

NATURAL_QUESTIONS == <<"y tu que haces?", "mmm y cuentame mas",
                       "ajaja en serio?", "tuuu que opinas?",
                       "q estas haciendo ahorita?", "jeje y que mas?">>

MODOS == <<"timido", "atrevido">>

IGNORED_USERS == {"game of thrones"}
FORBIDDEN_WORDS == <<"sexi", "hago">>
FORBIDDEN_SOCIALS == <<"facebook", "instagram", "tiktok", "whatsapp",
                       "snapchat", "telegram", "twitter", "x.com",
                       "messenger", "reddit", "discord">>

\* The dict PREDEFINED_RESPONSES, in its insertion order.
PREDEFINED_RESPONSES ==
    << [trigger |-> "[Recordatorio en l|nea]",
        response |-> "Hola cielo como estas"],
       [trigger |-> "es muy emparejado para ti",
        response |-> "Holis busco novio y t} estas lindo ~"],
       [trigger |-> "monedas de oro para saludarle",
        response |-> "Holis busco novio y t} estas lindo ~"],
       [trigger |-> "Te he seguido. Podemos ser amigos",
        response |-> "Te he seguido"] >>

\* The literals of generate_ia_response.
MODEL_GONE_REPLY == "ese modelo ya no est{ +"
API_FAILED_REPLY == "mmm fallo algo jeje +"
FALLBACK_REPLIES == <<"jeje sii", "ok", "dale", "mmm bueno">>
TIMIDO_SUFFIXES == <<"y tu?", "mmm y tu q piensas?", "jeje y tu?">>
ATREVIDO_SUFFIXES == <<"y si me cuentas mas @", "me gusta como hablas &",
                       "quiero saber mas %">>
GLOBAL_FILLERS == <<"ajaj sii", "dalee", "okey", "mmm bueno", "yaa jeje">>
\* The size above which last_global_replies is popped.
GLOBAL_REPLIES_CAP == 20
\* The number of memories update_memories keeps.
MEMORIES_KEPT == 5

(***************************************************************************)
(* The random module.  A draw is a natural number; random.choice and       *)
(* random.randint map it into their range, random.random() < p is a        *)
(* Boolean draw.                                                           *)
(***************************************************************************)
\* random.choice(seq)
Choice(seq, u) == seq[1 + (u % Len(seq))]
\* random.randint(a, b), a <= b
RandInt(a, b, u) == a + (u % (b - a + 1))

(***************************************************************************)
(* Auxiliary functions of the program.                                     *)
(***************************************************************************)
contains_emoji(text) ==
    \E i \in 1..Len(text) : CharAt(text, i) \in EMOJI_PATTERN

\* EMOJI_PATTERN.sub("", s), character by character.
RECURSIVE RemoveEmojis(_)
RemoveEmojis(s) ==
    IF Len(s) <= 1 THEN (IF s \in EMOJI_PATTERN THEN "" ELSE s)
    ELSE RemoveEmojis(SubSeq(s, 1, Len(s) \div 2))
         \o RemoveEmojis(SubSeq(s, Len(s) \div 2 + 1, Len(s)))

strip_emojis(text) == Strip(RemoveEmojis(text))

\* humanize_text; h = [rep, dbl: the two random.random() tests, pos: the
\* draw of random.randint(1, len(text) - 2)].
humanize_text(text0, h) ==
    LET text1 == Lower(text0)
        text2 == IF h.rep
                 THEN Replace(Replace(Replace(text1, "que", "q"),
                                      "t}", "tu"), "est{s", "estas")
                 ELSE text1
    IN  IF h.dbl /\ Len(text2) > 4
        THEN LET pos == RandInt(1, Len(text2) - 2, h.pos)
             IN  SubSeq(text2, 1, pos) \o CharAt(text2, pos + 1)
                 \o CharAt(text2, pos + 1)
                 \o SubSeq(text2, pos + 2, Len(text2))
        ELSE text2

\* re.search(r'\b' + re.escape(word) + r'\b', text)
WordMatch(word, text) ==
    \E i \in 1..(Len(text) - Len(word) + 1) :
        /\ SubSeq(text, i, i + Len(word) - 1) = word
        /\ i = 1 \/ ~IsWordChar(CharAt(text, i - 1))
        /\ \/ i + Len(word) - 1 = Len(text)
           \/ ~IsWordChar(CharAt(text, i + Len(word)))

contains_forbidden_word(text) ==
    LET text_lower == Lower(text)
    IN  \/ \E k \in 1..Len(FORBIDDEN_WORDS) :
              WordMatch(FORBIDDEN_WORDS[k], text_lower)
        \/ \E k \in 1..Len(FORBIDDEN_SOCIALS) :
              Contains(FORBIDDEN_SOCIALS[k], text_lower)

\* An optional text: None of Python, or a str.
None == [some |-> FALSE, val |-> ""]
Some(v) == [some |-> TRUE, val |-> v]

\* Mutant: a trigger matches only a message equal to it.
handle_system_message_Equal(message) ==
    LET hits == { k \in 1..Len(PREDEFINED_RESPONSES) :
                    PREDEFINED_RESPONSES[k].trigger = message }
    IN  IF hits = {} THEN None
        ELSE Some(PREDEFINED_RESPONSES[CHOOSE k \in hits : TRUE].response)

\* handle_system_message: the response of the first trigger, in the order
\* of the dict, that the message contains; None without one.
handle_system_message(message) ==
    LET hits == { k \in 1..Len(PREDEFINED_RESPONSES) :
                    Contains(PREDEFINED_RESPONSES[k].trigger, message) }
    IN  IF hits = {} THEN None
        ELSE Some(PREDEFINED_RESPONSES[CHOOSE k \in hits :
                                         \A j \in hits : k <= j].response)

\* re.sub(r"[!?]{2,}", lambda m: m.group(0)[0], text): of every run of
\* two or more marks the first is kept, so a mark stays exactly when no
\* mark precedes it.  CollapseRange does the characters lo..hi of s.
IsMark(c) == c \in {"!", "?"}
RECURSIVE CollapseRange(_, _, _)
CollapseRange(s, lo, hi) ==
    IF lo > hi THEN ""
    ELSE IF lo = hi
    THEN (IF IsMark(CharAt(s, lo)) /\ lo > 1 /\ IsMark(CharAt(s, lo - 1))
          THEN "" ELSE CharAt(s, lo))
    ELSE CollapseRange(s, lo, (lo + hi) \div 2)
         \o CollapseRange(s, (lo + hi) \div 2 + 1, hi)
CollapseMarks(s) == CollapseRange(s, 1, Len(s))

(***************************************************************************)
(* The session of a user: the dict get_user_history returns.               *)
(***************************************************************************)
Entry(role, message) == [role |-> role, message |-> message]

default_history ==
    [history |-> << >>, emoji_last_message |-> FALSE, memories |-> << >>]

\* memories[-5:]
\* Mutant: the list is trimmed at its end (the newest are dropped).
LastN_Oldest(seq, n) ==
    IF Len(seq) <= n THEN seq ELSE SubSeq(seq, 1, n)

\* seq[-n:]
LastN(seq, n) ==
    IF Len(seq) <= n THEN seq ELSE SubSeq(seq, Len(seq) - n + 1, Len(seq))

\* One "if phrase in lower_msg" block of update_memories on the state
\* st = [raised, memories]: split(phrase, 1)[1] raises IndexError when the
\* message does not hold the phrase in lower case.
MemoryRule(st, user_message, phrase, prefix) ==
    IF st.raised \/ ~Contains(phrase, Lower(user_message)) THEN st
    ELSE LET parts == Split1(user_message, phrase)
         IN  IF Len(parts) < 2
             THEN [raised |-> TRUE, memories |-> st.memories]
             ELSE [raised |-> FALSE,
                   memories |-> Append(st.memories,
                                       prefix \o Strip(parts[2]))]

\* update_memories: [raised |-> an IndexError was raised,
\*                   memories |-> user_session["memories"] afterwards].
\* The facts are appended to the list of the session in place (lines 172,
\* 176, 179, 182): when a later phrase raises, the list holds the facts
\* of the earlier ones, untrimmed.
update_memories(user_session, user_message) ==
    LET s0 == [raised |-> FALSE, memories |-> user_session.memories]
        s1 == MemoryRule(s0, user_message, "me gusta", "le gusta ")
        s2 == MemoryRule(s1, user_message, "soy de", "es de ")
        s3 == MemoryRule(s2, user_message, "trabajo en", "trabaja en ")
    IN  IF s3.raised
        THEN [raised |-> TRUE, memories |-> s3.memories]
        ELSE [raised |-> FALSE, memories |-> LastN(s3.memories, MEMORIES_KEPT)]

\* recall_memory; r = [recall: random.random() < 0.4, mem: the draw of
\* random.choice(memories)].
recall_memory(user_session, r) ==
    IF user_session.memories # << >> /\ r.recall
    THEN Some(Choice(user_session.memories, r.mem))
    ELSE None

\* Lines 259-262: every role that is not "USER" is sent as "CHATBOT";
\* "next((m["message"] for m in reversed(cohere_history)
\*        if m["role"] == "CHATBOT"), None)"
LastBotMessage(history) ==
    LET bots == { i \in 1..Len(history) : history[i].role # "USER" }
    IN  IF bots = {} THEN None
        ELSE Some(history[CHOOSE i \in bots : \A j \in bots : j <= i].message)

ChatbotCount(history) ==
    Cardinality({ i \in 1..Len(history) : history[i].role = "CHATBOT" })

(***************************************************************************)
(* generate_ia_response, the part between the API call and the global      *)
(* reply set.  d holds the draws of the random module in it:               *)
(*   fallback  random.choice of the four fallback replies                  *)
(*   question  random.choice(NATURAL_QUESTIONS), hq its humanize_text      *)
(*   hum       random.random() < 0.4, hr the humanize_text of the reply    *)
(*   modo      random.choice(MODOS)                                        *)
(*   suffix    random.random() < 0.4 (timido) or < 0.5 (atrevido)          *)
(*   sfx       random.choice of the suffix, hs its humanize_text (timido)  *)
(*   recall, mem   the draws of recall_memory                              *)
(*   filler    random.choice of the five fillers                           *)
(***************************************************************************)
\* Lines 292-294: the punctuation rule and the fallback.
Fallback(reply, history, d) ==
    LET collapsed == CollapseMarks(reply)
        last_bot_message == LastBotMessage(history)
    IN  IF \/ collapsed = ""
           \/ (last_bot_message.some /\ collapsed = last_bot_message.val)
           \/ contains_forbidden_word(collapsed)
        THEN Choice(FALLBACK_REPLIES, d.fallback)
        ELSE collapsed

\* Lines 296-299: a question after every third agent line.
AddQuestion(reply, history, d) ==
    LET n == ChatbotCount(history)
    IN  IF n > 0 /\ n % 3 = 0
        THEN reply \o " "
             \o humanize_text(Choice(NATURAL_QUESTIONS, d.question), d.hq)
        ELSE reply

\* Lines 301-310: humanize_text and the suffix of the mode.
AddMode(reply, d) ==
    LET humanized == IF d.hum THEN humanize_text(reply, d.hr) ELSE reply
        modo == Choice(MODOS, d.modo)
    IN  IF ~d.suffix THEN humanized
        ELSE IF modo = "timido"
        THEN humanized \o " "
             \o humanize_text(Choice(TIMIDO_SUFFIXES, d.sfx), d.hs)
        ELSE humanized \o " " \o Choice(ATREVIDO_SUFFIXES, d.sfx)

\* Lines 292-315: [raised |-> update_memories raised IndexError,
\*                 reply |-> ia_reply, session |-> user_session].
PostProcess(reply, user_session, user_message, d) ==
    LET shaped == AddMode(AddQuestion(
                      Fallback(reply, user_session.history, d),
                      user_session.history, d), d)
        um == update_memories(user_session, user_message)
        session1 == [user_session EXCEPT !.memories = um.memories]
        memory == recall_memory(session1, d)
    IN  [raised |-> um.raised,
         reply |-> IF um.raised \/ ~memory.some THEN shaped
                   ELSE shaped \o " (recuerdo q me dijiste q "
                        \o memory.val \o ")",
         session |-> session1]

\* Lines 317-318: the test against last_global_replies.
GlobalCheck(reply, replies, d) ==
    IF reply \in replies THEN Choice(GLOBAL_FILLERS, d.filler) ELSE reply

\* Lines 323-334: the emoji rule and the two entries appended to the
\* history; e is the draw of random.choice(RANDOM_EMOJIS).
EmojiRule(reply, user_session, e) ==
    IF ~user_session.emoji_last_message
    THEN [reply |-> IF contains_emoji(reply) THEN reply
                    ELSE reply \o Choice(RANDOM_EMOJIS, e),
          flag |-> TRUE]
    ELSE [reply |-> strip_emojis(reply), flag |-> FALSE]

\* Mutant: the history is replaced by the new exchange.
AppendExchange_Replace(user_session, user_message, reply, flag) ==
    [user_session EXCEPT
        !.history = <<Entry("USER", user_message), Entry("CHATBOT", reply)>>,
        !.emoji_last_message = flag]

\* Mutant: the line of the agent is appended before the line of the user.
AppendExchange_BotFirst(user_session, user_message, reply, flag) ==
    [user_session EXCEPT
        !.history = Append(Append(@, Entry("CHATBOT", reply)),
                           Entry("USER", user_message)),
        !.emoji_last_message = flag]

\* Lines 333-334 and 365-367: the two entries of an exchange.
AppendExchange(user_session, user_message, reply, flag) ==
    [user_session EXCEPT
        !.history = Append(Append(@, Entry("USER", user_message)),
                           Entry("CHATBOT", reply)),
        !.emoji_last_message = flag]

(***************************************************************************)
(* The body of a request, as request.get_data and json.loads see it.       *)
(*   raw   "empty": no data; "control": only control characters;           *)
(*         "notjson": text json.loads rejects; "json": a JSON text         *)
(*   kind  of the JSON value: "null", "list", "num", "str" or "obj"        *)
(*   user_id, message   the values of the two keys of an object            *)
(***************************************************************************)
JAbsent == [t |-> "absent", v |-> ""]
JNull == [t |-> "null", v |-> ""]
JStr(text) == [t |-> "str", v |-> text]
JNum(digits) == [t |-> "num", v |-> digits]

RawBody(raw) ==
    [raw |-> raw, kind |-> "none", user_id |-> JAbsent, message |-> JAbsent]
JsonBody(kind) ==
    [raw |-> "json", kind |-> kind, user_id |-> JAbsent, message |-> JAbsent]
ObjectBody(user_id, message) ==
    [raw |-> "json", kind |-> "obj", user_id |-> user_id, message |-> message]
ChatBody(user_id, message) == ObjectBody(JStr(user_id), JStr(message))

\* "not x" of Python is false for x.
Truthy(j) == (j.t = "str" /\ j.v # "") \/ (j.t = "num" /\ j.v # "0")

\* Bodies handle_chat does not process.
RejectedBodies ==
    { RawBody("empty"), RawBody("control"), RawBody("notjson"),
      JsonBody("null"), JsonBody("list"), JsonBody("num"), JsonBody("str"),
      ObjectBody(JAbsent, JAbsent),
      ObjectBody(JStr("u1"), JAbsent),
      ObjectBody(JAbsent, JStr("hola")),
      ObjectBody(JStr(""), JStr("hola")),
      ObjectBody(JStr("u1"), JStr("")),
      ObjectBody(JNull, JStr("hola")),
      ObjectBody(JNum("0"), JStr("hola")),
      ObjectBody(JNum("7"), JStr("hola")),
      ChatBody("game of thrones", "hola"),
      ChatBody("\tGame Of Thrones", "hola") }

\* Messages of requests that run concurrently.
NarrowMessages == { "hola", "[Recordatorio en l|nea] Ana" }

\* Messages of a request that runs alone.
WideMessages ==
    NarrowMessages \cup
    { "hola, es muy emparejado para ti",
      "50 monedas de oro para saludarle",
      "Te he seguido. Podemos ser amigos",
      "te he seguido. podemos ser amigos",
      "ES MUY EMPAREJADO PARA TI",
      "[recordatorio en l|nea] ana",
      "Te he seguido. Podemos ser amigos [Recordatorio en l|nea]",
      "me gusta bailar",
      "Me gusta bailar",
      "me gusta bailar y SOY DE cali",
      "soy de cali y trabajo en un bar",
      "me gusta instagram" }

Users == { "u1", "u2" }

\* Every key a row or a lock could be stored under.
UserIds == Users \cup { "", "game of thrones", "\tGame Of Thrones" }

\* Texts the chat API returns.
NarrowApiTexts == { " hola q tal\n" }
CapApiTexts == NarrowApiTexts \cup { "ok ya" }
WideApiTexts == NarrowApiTexts \cup { "que haces??!", "", "ok", "ok ~" }

\* Outcomes of a call of the chat API.
ApiOutcomes(texts) ==
    { [kind |-> "ok", text |-> t] : t \in texts }
    \cup { [kind |-> "NotFoundError", text |-> ""],
           [kind |-> "Exception", text |-> ""] }

\* Draws of the random module.
NoHumanize == [rep |-> FALSE, dbl |-> FALSE, pos |-> 0]
PlainDraw ==
    [fallback |-> 1, question |-> 0, hq |-> NoHumanize,
     hum |-> FALSE, hr |-> NoHumanize, modo |-> 0, suffix |-> FALSE,
     sfx |-> 0, hs |-> NoHumanize, recall |-> FALSE, mem |-> 0,
     filler |-> 0]
NarrowDraws == { PlainDraw }
WideDraws ==
    NarrowDraws \cup
    { [PlainDraw EXCEPT !.modo = 1, !.suffix = TRUE, !.sfx = 1],
      [PlainDraw EXCEPT !.hum = TRUE,
                        !.hr = [rep |-> TRUE, dbl |-> TRUE, pos |-> 2]],
      [PlainDraw EXCEPT !.suffix = TRUE, !.sfx = 1,
                        !.hs = [rep |-> FALSE, dbl |-> TRUE, pos |-> 0]],
      [PlainDraw EXCEPT !.recall = TRUE, !.mem = 0, !.filler = 3,
                        !.fallback = 3, !.question = 4,
                        !.hq = [rep |-> TRUE, dbl |-> FALSE, pos |-> 0]] }
NarrowEmojiDraws == { 0 }
WideEmojiDraws == { 0, 6 }

(***************************************************************************)
(* The table conversation_histories, one row per user_id.                  *)
(***************************************************************************)
NoRow == [exists |-> FALSE, history |-> << >>,
          emoji_last_message |-> FALSE, memories |-> << >>]
Row(history, emoji_last_message, memories) ==
    [exists |-> TRUE, history |-> history,
     emoji_last_message |-> emoji_last_message, memories |-> memories]

EmptyStore == [u \in UserIds |-> NoRow]
StoreOf(user_id, row) == [EmptyStore EXCEPT ![user_id] = row]

\* Stores the program has written in an earlier run of the process.
NarrowStores ==
    { StoreOf("u1", Row(<<Entry("USER", "[Recordatorio en l|nea] Ana"),
                          Entry("CHATBOT", "Hola cielo como estas")>>,
                        FALSE, << >>)) }
WideStores ==
    NarrowStores \cup
    { EmptyStore,
      StoreOf("u1", Row(<<Entry("USER", "me gusta bailar"),
                          Entry("CHATBOT", "hola q tal @")>>,
                        TRUE, <<"le gusta bailar">>)),
      StoreOf("u1", Row(<<Entry("USER", "[Recordatorio en l|nea] Ana"),
                          Entry("CHATBOT", "Hola cielo como estas"),
                          Entry("USER", "hola"),
                          Entry("CHATBOT", "hola q tal @"),
                          Entry("USER", "hola"),
                          Entry("CHATBOT", "ok")>>,
                        FALSE, << >>)),
      \* after "me gusta leer, soy de lima" answered "hola q tal" and
      \* "trabajo en casa, me gusta el cine" answered "ok ~"
      StoreOf("u1", Row(<<Entry("USER", "me gusta leer, soy de lima"),
                          Entry("CHATBOT", "hola q tal @"),
                          Entry("USER", "trabajo en casa, me gusta el cine"),
                          Entry("CHATBOT", "ok ~")>>,
                        FALSE, <<"le gusta leer, soy de lima", "es de lima",
                                 "le gusta el cine",
                                 "trabaja en casa, me gusta el cine">>)) }

\* A value of last_global_replies at its cap.
FullReplies ==
    { "jeje sii", "ok", "dale", "mmm bueno", "ajaj sii", "dalee", "okey",
      "yaa jeje", "ese modelo ya no est{ +", "mmm fallo algo jeje +",
      "hola", "hola cielo", "hola amor", "que haces", "y tu", "bien y tu",
      "jaja", "mmm", "aja", "claro" }

(***************************************************************************)
(* State.                                                                  *)
(***************************************************************************)
VARIABLES
    pc,                  \* where each request is in handle_chat
    request,             \* the body of each request
    exc,                 \* the exception a request is unwinding with, or ""
    response,            \* what handle_chat returned: [status, text]
    user_locks,          \* the dict user_locks: user_id -> lock, 0: no key
    locks_dict_lock,     \* the holder of locks_dict_lock, 0: free
    lock_owner,          \* the holder of each threading.Lock, 0: free
    user_lock,           \* the local user_lock of each request
    db,                  \* the table conversation_histories
    user_session,        \* the local user_session of each request
    current_index,       \* key_manager.current_index
    client,              \* the key of current_cohere_client of each request
    ia_reply,            \* the local ia_reply (system_response on a trigger)
    last_global_replies, \* the global set
    faults,              \* database faults used of the budget MaxFaults
    calls,               \* history: the API calls of each: key, outcome
    rotations,           \* history: the rotate_to_next_key calls of each
    loaded,              \* history: the session each request loaded
    saved,               \* history: the outcome of the save of each, or "none"
    locks_made,          \* history: <<user_id, lock>> of every Lock made
    db0,                 \* history: the table of the initial state
    index0,              \* history: the key index of the initial state
    replies0,            \* history: the global set of the initial state
    added,               \* history: what each request added to the set
    width                \* the input sets of the behaviour: "narrow",
                         \* "wide", "cap" or "exits"

vars == <<pc, request, exc, response, user_locks, locks_dict_lock,
          lock_owner, user_lock, db, user_session, current_index, client,
          ia_reply, last_global_replies, faults, calls, rotations, loaded,
          saved, locks_made, db0, width,
                   index0, replies0, added>>

NoResponse == [status |-> 0, text |-> ""]
NoRequest == RawBody("none")

\* The requests of the behaviour: those not "off".
Active == { p \in Procs : pc[p] # "off" }

\* Bodies for every way out of handle_chat: a rejection, a trigger
\* reply, a generative reply, a TypeError and an IndexError in the pipeline.
ExitBodies ==
    { ObjectBody(JStr("u1"), JAbsent),
      ObjectBody(JStr("u1"), JNum("5")),
      ChatBody("u1", "[Recordatorio en l|nea] Ana"),
      ChatBody("u1", "hola"),
      ChatBody("u2", "hola"),
      ChatBody("u2", "Me gusta bailar") }

\* The inputs of a behaviour: bodies, texts of the chat API, draws.
Bodies ==
    IF width = "cap" THEN { ChatBody(u, "hola") : u \in Users }
    ELSE IF width = "exits" THEN ExitBodies
    ELSE RejectedBodies
         \cup { ObjectBody(JStr("u1"), JNum("5")) }
         \cup { ChatBody(u, m) :
                  u \in Users,
                  m \in IF width = "wide" THEN WideMessages
                        ELSE NarrowMessages }
ApiTexts == IF width = "wide" THEN WideApiTexts
            ELSE IF width = "cap" THEN CapApiTexts ELSE NarrowApiTexts
\* With the set at its cap the calls succeed: the behaviours differ by
\* the texts and by the element each pop removes.
ApiResults ==
    IF width = "cap" THEN { [kind |-> "ok", text |-> t] : t \in ApiTexts }
    ELSE ApiOutcomes(ApiTexts)
Draws == IF width = "wide" THEN WideDraws ELSE NarrowDraws
EmojiDraws == IF width = "wide" THEN WideEmojiDraws ELSE NarrowEmojiDraws

(***************************************************************************)
(* The initial states: the process has just started (no lock, no request   *)
(* yet) over a table an earlier run has written.  Four families bound      *)
(* the exploration:                                                        *)
(*   concurrent  every request runs, with the narrow input sets;           *)
(*   alone       one request runs, with the wide input sets;               *)
(*   full        one request runs, with last_global_replies at its cap,    *)
(*               as after the replies to users outside the model;          *)
(*   cap         every request runs with the set at its cap, the database  *)
(*               and the chat API answering (no fault left to inject).     *)
(***************************************************************************)
Scenarios ==
    { [width |-> "narrow", active |-> NumRequests, db |-> st,
       replies |-> {}, index |-> 0, faults |-> 0] : st \in NarrowStores }
    \cup { [width |-> "wide", active |-> 1, db |-> st, replies |-> {},
            index |-> i, faults |-> 0] :
              st \in WideStores, i \in 0..(NumKeys - 1) }
    \cup { [width |-> "narrow", active |-> 1, db |-> EmptyStore,
            replies |-> FullReplies, index |-> 0, faults |-> 0] }
    \cup { [width |-> "cap", active |-> NumRequests, db |-> EmptyStore,
            replies |-> FullReplies, index |-> 0, faults |-> MaxFaults] }

\* The scenarios of the behaviours checked for progress.
ExitScenarios ==
    { [width |-> "exits", active |-> NumRequests, db |-> st,
       replies |-> {}, index |-> 0, faults |-> 0] : st \in NarrowStores }
    \cup { [width |-> "narrow", active |-> 1, db |-> EmptyStore,
            replies |-> FullReplies, index |-> 0, faults |-> 0] }

InitFrom(scenarios) ==
    /\ \E sc \in scenarios :
          /\ width = sc.width
          /\ pc = [p \in Procs |-> IF p <= sc.active THEN "start" ELSE "off"]
          /\ db = sc.db
          /\ last_global_replies = sc.replies
          /\ current_index = sc.index
          /\ faults = sc.faults
    /\ request = [p \in Procs |-> NoRequest]
    /\ exc = [p \in Procs |-> ""]
    /\ response = [p \in Procs |-> NoResponse]
    /\ user_locks = [u \in UserIds |-> 0]
    /\ locks_dict_lock = 0
    /\ lock_owner = [l \in Procs |-> 0]
    /\ user_lock = [p \in Procs |-> 0]
    /\ user_session = [p \in Procs |-> default_history]
    /\ client = [p \in Procs |-> 0]
    /\ ia_reply = [p \in Procs |-> ""]
    /\ calls = [p \in Procs |-> << >>]
    /\ rotations = [p \in Procs |-> 0]
    /\ loaded = [p \in Procs |-> default_history]
    /\ saved = [p \in Procs |-> "none"]
    /\ locks_made = {}
    /\ db0 = db
    /\ index0 = current_index
    /\ replies0 = last_global_replies
    /\ added = [p \in Procs |-> None]

Init == InitFrom(Scenarios)
ExitInit == InitFrom(ExitScenarios)

user_id(p) == request[p].user_id.v
user_message(p) == request[p].message.v

(***************************************************************************)
(* handle_chat, lines 343-356: the body is read, parsed and validated.     *)
(* The result is the response returned, or status 0 to go on.  A JSON      *)
(* value that is no object has no get, and a user_id that is no str has no *)
(* strip: AttributeError, which the handler of line 373 answers.           *)
(***************************************************************************)
ServerError == [status |-> 500, text |-> "Error en el servidor"]

\* Mutant: the blocklist is tested on the user_id as sent.
Validation_AsSent(b) ==
    IF b.raw = "empty"
    THEN [status |-> 400, text |-> "Error: No se recibieron datos."]
    ELSE IF b.raw \in {"control", "notjson"}
    THEN [status |-> 400, text |-> "Error: Formato JSON inv{lido."]
    ELSE IF b.kind # "obj"
    THEN ServerError
    ELSE IF ~Truthy(b.user_id) \/ ~Truthy(b.message)
    THEN [status |-> 400, text |-> "Error: faltan par{metros"]
    ELSE IF b.user_id.t # "str"
    THEN ServerError
    ELSE IF b.user_id.v \in IGNORED_USERS
    THEN [status |-> 200, text |-> "Ignorado"]
    ELSE NoResponse

Validation(b) ==
    IF b.raw = "empty"
    THEN [status |-> 400, text |-> "Error: No se recibieron datos."]
    ELSE IF b.raw \in {"control", "notjson"}
    THEN [status |-> 400, text |-> "Error: Formato JSON inv{lido."]
    ELSE IF b.kind # "obj"
    THEN ServerError
    ELSE IF ~Truthy(b.user_id) \/ ~Truthy(b.message)
    THEN [status |-> 400, text |-> "Error: faltan par{metros"]
    ELSE IF b.user_id.t # "str"
    THEN ServerError
    ELSE IF Lower(Strip(b.user_id.v)) \in IGNORED_USERS
    THEN [status |-> 200, text |-> "Ignorado"]
    ELSE NoResponse

Validate(p) ==
    /\ pc[p] = "start"
    /\ \E b \in Bodies :
          /\ request' = [request EXCEPT ![p] = b]
          /\ response' = [response EXCEPT ![p] = Validation(b)]
          /\ pc' = [pc EXCEPT ![p] = IF Validation(b) = NoResponse
                                     THEN "registry" ELSE "done"]
    /\ UNCHANGED <<exc, user_locks, locks_dict_lock, lock_owner, user_lock,
                   db, user_session, current_index, client, ia_reply,
                   last_global_replies, faults, calls, rotations, loaded,
                   saved, locks_made, db0, width,
                   index0, replies0, added>>

(***************************************************************************)
(* Lines 357-360: the registry of the locks, under locks_dict_lock.        *)
(***************************************************************************)
\* Mutant: the registry is read and written without locks_dict_lock.
RegistryLockFree_NoLock == TRUE

\* "with locks_dict_lock" may enter.
RegistryLockFree == locks_dict_lock = 0

AcquireRegistryLock(p) ==
    /\ pc[p] = "registry"
    /\ RegistryLockFree
    /\ locks_dict_lock' = p
    /\ pc' = [pc EXCEPT ![p] = "reg_check"]
    /\ UNCHANGED <<request, exc, response, user_locks, lock_owner,
                   user_lock, db, user_session, current_index, client,
                   ia_reply, last_global_replies, faults, calls, rotations,
                   loaded, saved, locks_made, db0, width,
                   index0, replies0, added>>

\* Line 358: if user_id not in user_locks
RegistryCheck(p) ==
    /\ pc[p] = "reg_check"
    /\ pc' = [pc EXCEPT ![p] = IF user_locks[user_id(p)] = 0
                               THEN "reg_create" ELSE "reg_read"]
    /\ UNCHANGED <<request, exc, response, user_locks, locks_dict_lock,
                   lock_owner, user_lock, db, user_session, current_index,
                   client, ia_reply, last_global_replies, faults, calls,
                   rotations, loaded, saved, locks_made, db0, width,
                   index0, replies0, added>>

\* Line 359: a new threading.Lock; the one request p makes is lock p.
RegistryCreate(p) ==
    /\ pc[p] = "reg_create"
    /\ user_locks' = [user_locks EXCEPT ![user_id(p)] = p]
    /\ locks_made' = locks_made \cup {<<user_id(p), p>>}
    /\ pc' = [pc EXCEPT ![p] = "reg_read"]
    /\ UNCHANGED <<request, exc, response, locks_dict_lock, lock_owner,
                   user_lock, db, user_session, current_index, client,
                   ia_reply, last_global_replies, faults, calls, rotations,
                   loaded, saved, db0, width,
                   index0, replies0, added>>

\* Line 360 and the end of "with locks_dict_lock".
RegistryRead(p) ==
    /\ pc[p] = "reg_read"
    /\ user_lock' = [user_lock EXCEPT ![p] = user_locks[user_id(p)]]
    /\ locks_dict_lock' = IF locks_dict_lock = p THEN 0 ELSE locks_dict_lock
    /\ pc' = [pc EXCEPT ![p] = "user_lock"]
    /\ UNCHANGED <<request, exc, response, user_locks, lock_owner, db,
                   user_session, current_index, client, ia_reply,
                   last_global_replies, faults, calls, rotations, loaded,
                   saved, locks_made, db0, width,
                   index0, replies0, added>>

\* Mutant: the critical section is entered without waiting for the lock.
UserLockFree_NoWait(p) == TRUE

\* Line 361: "with user_lock" may enter.
UserLockFree(p) == lock_owner[user_lock[p]] = 0

AcquireUserLock(p) ==
    /\ pc[p] = "user_lock"
    /\ UserLockFree(p)
    /\ lock_owner' = [lock_owner EXCEPT ![user_lock[p]] = p]
    /\ pc' = [pc EXCEPT ![p] = "load"]
    /\ UNCHANGED <<request, exc, response, user_locks, locks_dict_lock,
                   user_lock, db, user_session, current_index, client,
                   ia_reply, last_global_replies, faults, calls, rotations,
                   loaded, saved, locks_made, db0, width,
                   index0, replies0, added>>

(***************************************************************************)
(* The store: get_user_history and save_user_history.                      *)
(***************************************************************************)
get_user_history(store, uid) ==
    IF store[uid].exists
    THEN [history |-> store[uid].history,
          emoji_last_message |-> store[uid].emoji_last_message,
          memories |-> store[uid].memories]
    ELSE default_history

\* The upsert of save_user_history, committed.
save_user_history(store, uid, session_data) ==
    [store EXCEPT ![uid] = Row(session_data.history,
                               session_data.emoji_last_message,
                               session_data.memories)]

\* What a database call does: "ok", or a fault while the budget lasts.
\* "connect": psycopg2.connect raises in get_db_connection; "execute" and
\* "commit": cur.execute or conn.commit raises, nothing is committed;
\* "close": conn.close() raises in the "finally" (lines 208, 227), after
\* the row was fetched or the upsert committed.
LoadOutcomes == {"ok"} \cup (IF faults < MaxFaults
                             THEN {"connect", "execute", "close"} ELSE {})
SaveOutcomes == {"ok"} \cup (IF faults < MaxFaults
                             THEN {"connect", "execute", "commit", "close"}
                             ELSE {})

\* save_user_history lets the exception of get_db_connection (line 211,
\* before the try) and the one of conn.close() (line 227, in the
\* "finally") through and swallows the others (line 224).
SaveRaises(outcome) == outcome \in {"connect", "close"}

\* Line 362: get_user_history; an exception leaves "with user_lock".
Load(p) ==
    /\ pc[p] = "load"
    /\ \E outcome \in LoadOutcomes :
          IF outcome = "ok"
          THEN /\ user_session' = [user_session EXCEPT
                                     ![p] = get_user_history(db, user_id(p))]
               /\ loaded' = [loaded EXCEPT
                               ![p] = get_user_history(db, user_id(p))]
               /\ pc' = [pc EXCEPT ![p] = "handle"]
               /\ UNCHANGED <<exc, faults>>
          ELSE /\ exc' = [exc EXCEPT ![p] = "OperationalError"]
               /\ faults' = faults + 1
               /\ pc' = [pc EXCEPT ![p] = "exit"]
               /\ UNCHANGED <<user_session, loaded>>
    /\ UNCHANGED <<request, response, user_locks, locks_dict_lock,
                   lock_owner, user_lock, db, current_index, client,
                   ia_reply, last_global_replies, calls, rotations, saved,
                   locks_made, db0, width,
                   index0, replies0, added>>

\* Mutant: the save sits in a "finally", so a failed pipeline still saves.
AfterRaise_Save == "save"

\* Where an exception of the reply pipeline (lines 363-370) goes on: it
\* leaves "with user_lock" past both calls of save_user_history.
AfterRaise == "exit"

\* Lines 363-367, and 257-267 of generate_ia_response: the trigger reply,
\* or the client of the current key.  "trigger in message" raises
\* TypeError for a message that is no str.
Handle(p) ==
    /\ pc[p] = "handle"
    /\ IF request[p].message.t # "str"
       THEN /\ exc' = [exc EXCEPT ![p] = "TypeError"]
            /\ pc' = [pc EXCEPT ![p] = AfterRaise]
            /\ UNCHANGED <<user_session, ia_reply, client>>
       ELSE LET system_response == handle_system_message(user_message(p))
            IN  IF system_response.some /\ system_response.val # ""
                THEN /\ user_session' = [user_session EXCEPT ![p] =
                            AppendExchange(@, user_message(p),
                                system_response.val,
                                contains_emoji(system_response.val))]
                     /\ ia_reply' = [ia_reply EXCEPT
                                       ![p] = system_response.val]
                     /\ pc' = [pc EXCEPT ![p] = "save"]
                     /\ UNCHANGED <<exc, client>>
                ELSE /\ client' = [client EXCEPT ![p] = current_index]
                     /\ pc' = [pc EXCEPT ![p] = "chat1"]
                     /\ UNCHANGED <<exc, user_session, ia_reply>>
    /\ UNCHANGED <<request, response, user_locks, locks_dict_lock,
                   lock_owner, user_lock, db, current_index,
                   last_global_replies, faults, calls, rotations, loaded,
                   saved, locks_made, db0, width,
                   index0, replies0, added>>

(***************************************************************************)
(* generate_ia_response, lines 266-290: the calls of the chat API.         *)
(***************************************************************************)
\* Mutant: model-not-found is retried like any other error.
AfterChat1_RetryAll(kind) == IF kind = "ok" THEN "post" ELSE "rotate"

\* Where the first call goes on: the reply is there ("post") or the key
\* is rotated for a second call ("rotate").
AfterChat1(kind) == IF kind = "Exception" THEN "rotate" ELSE "post"

Chat1(p) ==
    /\ pc[p] = "chat1"
    /\ \E out \in ApiResults :
          /\ calls' = [calls EXCEPT
                ![p] = Append(@, [key |-> client[p], kind |-> out.kind,
                                  text |-> out.text])]
          /\ ia_reply' = [ia_reply EXCEPT ![p] =
                IF out.kind = "ok" THEN Strip(out.text)
                ELSE IF out.kind = "NotFoundError" THEN MODEL_GONE_REPLY
                ELSE @]
          /\ pc' = [pc EXCEPT ![p] = AfterChat1(out.kind)]
    /\ UNCHANGED <<request, exc, response, user_locks, locks_dict_lock,
                   lock_owner, user_lock, db, user_session, current_index,
                   client, last_global_replies, faults, rotations, loaded,
                   saved, locks_made, db0, width,
                   index0, replies0, added>>

\* rotate_to_next_key, lines 35-37, under key_manager.lock.
Rotate(p) ==
    /\ pc[p] = "rotate"
    /\ current_index' = (current_index + 1) % NumKeys
    /\ rotations' = [rotations EXCEPT ![p] = @ + 1]
    /\ pc' = [pc EXCEPT ![p] = "client2"]
    /\ UNCHANGED <<request, exc, response, user_locks, locks_dict_lock,
                   lock_owner, user_lock, db, user_session, client,
                   ia_reply, last_global_replies, faults, calls, loaded,
                   saved, locks_made, db0, width,
                   index0, replies0, added>>

\* rotate_to_next_key, line 38: get_current_client, outside the lock.
GetClient2(p) ==
    /\ pc[p] = "client2"
    /\ client' = [client EXCEPT ![p] = current_index]
    /\ pc' = [pc EXCEPT ![p] = "chat2"]
    /\ UNCHANGED <<request, exc, response, user_locks, locks_dict_lock,
                   lock_owner, user_lock, db, user_session, current_index,
                   ia_reply, last_global_replies, faults, calls, rotations,
                   loaded, saved, locks_made, db0, width,
                   index0, replies0, added>>

\* Lines 281-290: the second call; any exception gives the apology.
Chat2(p) ==
    /\ pc[p] = "chat2"
    /\ \E out \in ApiResults :
          /\ calls' = [calls EXCEPT
                ![p] = Append(@, [key |-> client[p], kind |-> out.kind,
                                  text |-> out.text])]
          /\ ia_reply' = [ia_reply EXCEPT ![p] =
                IF out.kind = "ok" THEN Strip(out.text)
                ELSE API_FAILED_REPLY]
          /\ pc' = [pc EXCEPT ![p] = "post"]
    /\ UNCHANGED <<request, exc, response, user_locks, locks_dict_lock,
                   lock_owner, user_lock, db, user_session, current_index,
                   client, last_global_replies, faults, rotations, loaded,
                   saved, locks_made, db0, width,
                   index0, replies0, added>>

(***************************************************************************)
(* generate_ia_response, lines 292-335: the sanitizer.                     *)
(***************************************************************************)
\* Lines 292-318: the local rules, update_memories (whose IndexError
\* leaves generate_ia_response and "with user_lock"), recall_memory and
\* the test against last_global_replies.
Post(p) ==
    /\ pc[p] = "post"
    /\ \E d \in Draws :
          LET r == PostProcess(ia_reply[p], user_session[p],
                               user_message(p), d)
          IN  IF r.raised
              THEN /\ exc' = [exc EXCEPT ![p] = "IndexError"]
                   /\ user_session' = [user_session EXCEPT ![p] = r.session]
                   /\ pc' = [pc EXCEPT ![p] = AfterRaise]
                   /\ UNCHANGED ia_reply
              ELSE /\ ia_reply' = [ia_reply EXCEPT ![p] =
                          GlobalCheck(r.reply, last_global_replies, d)]
                   /\ user_session' = [user_session EXCEPT ![p] = r.session]
                   /\ pc' = [pc EXCEPT ![p] = "global_add"]
                   /\ UNCHANGED exc
    /\ UNCHANGED <<request, response, user_locks, locks_dict_lock,
                   lock_owner, user_lock, db, current_index, client,
                   last_global_replies, faults, calls, rotations, loaded,
                   saved, locks_made, db0, width,
                   index0, replies0, added>>

\* Line 319: last_global_replies.add(ia_reply)
GlobalAdd(p) ==
    /\ pc[p] = "global_add"
    /\ last_global_replies' = last_global_replies \cup {ia_reply[p]}
    /\ added' = [added EXCEPT ![p] = Some(ia_reply[p])]
    /\ pc' = [pc EXCEPT ![p] = "global_len"]
    /\ UNCHANGED <<request, exc, response, user_locks, locks_dict_lock,
                   lock_owner, user_lock, db, user_session, current_index,
                   client, ia_reply, faults, calls, rotations, loaded,
                   saved, locks_made, db0, width,
                   index0, replies0>>

\* Lines 323-335 on the locals of request p, with the emoji draw e.
Finish(p, e) ==
    LET er == EmojiRule(ia_reply[p], user_session[p], e)
    IN  /\ ia_reply' = [ia_reply EXCEPT ![p] = er.reply]
        /\ user_session' = [user_session EXCEPT ![p] =
               AppendExchange(@, user_message(p), er.reply, er.flag)]
        /\ pc' = [pc EXCEPT ![p] = "save"]

\* Mutant: the size test never asks for a pop.
OverCap_Never(n) == FALSE

\* Line 320: len(last_global_replies) > 20
OverCap(n) == n > GLOBAL_REPLIES_CAP

\* Line 320: if len(last_global_replies) > 20; without a pop the request
\* goes on to lines 323-335.
GlobalLen(p) ==
    /\ pc[p] = "global_len"
    /\ IF OverCap(Cardinality(last_global_replies))
       THEN /\ pc' = [pc EXCEPT ![p] = "global_pop"]
            /\ UNCHANGED <<ia_reply, user_session>>
       ELSE \E e \in EmojiDraws : Finish(p, e)
    /\ UNCHANGED <<request, exc, response, user_locks, locks_dict_lock,
                   lock_owner, user_lock, db, current_index, client,
                   last_global_replies, faults, calls, rotations, loaded,
                   saved, locks_made, db0, width,
                   index0, replies0, added>>

\* Line 321: set.pop() removes an arbitrary element; then lines 323-335.
GlobalPop(p) ==
    /\ pc[p] = "global_pop"
    /\ \E x \in last_global_replies :
          last_global_replies' = last_global_replies \ {x}
    /\ \E e \in EmojiDraws : Finish(p, e)
    /\ UNCHANGED <<request, exc, response, user_locks, locks_dict_lock,
                   lock_owner, user_lock, db, current_index, client,
                   faults, calls, rotations, loaded, saved, locks_made,
                   db0, width,
                   index0, replies0, added>>

(***************************************************************************)
(* handle_chat, lines 368-375: the save, the end of "with user_lock" and   *)
(* the response.                                                           *)
(***************************************************************************)
\* Line 221: conn.commit() is reached and returns.
Committed(outcome) == outcome \in {"ok", "close"}

\* Lines 368 and 371: save_user_history.
Save(p) ==
    /\ pc[p] = "save"
    /\ \E outcome \in SaveOutcomes :
          /\ db' = IF Committed(outcome)
                   THEN save_user_history(db, user_id(p), user_session[p])
                   ELSE db
          /\ saved' = [saved EXCEPT ![p] = outcome]
          /\ faults' = IF outcome = "ok" THEN faults ELSE faults + 1
          /\ exc' = [exc EXCEPT ![p] = IF outcome # "ok" /\ SaveRaises(outcome)
                                       THEN "OperationalError" ELSE @]
    /\ pc' = [pc EXCEPT ![p] = "exit"]
    /\ UNCHANGED <<request, response, user_locks, locks_dict_lock,
                   lock_owner, user_lock, user_session, current_index,
                   client, ia_reply, last_global_replies, calls, rotations,
                   loaded, locks_made, db0, width,
                   index0, replies0, added>>

\* What handle_chat returns once "with user_lock" is left: the reply
\* (lines 369, 372), or the answer of "except Exception" (line 375).
Returned(p) ==
    IF exc[p] # "" THEN ServerError
    ELSE [status |-> 200, text |-> ia_reply[p]]

\* Mutant: the lock stays held when the critical section is left.
ReleaseLock_Leak(p) == lock_owner

\* user_lock.release() of "with user_lock": lock_owner afterwards.
ReleaseLock(p) ==
    [l \in Procs |-> IF lock_owner[l] = p THEN 0 ELSE lock_owner[l]]

\* The end of "with user_lock", by return or by exception.
Exit(p) ==
    /\ pc[p] = "exit"
    /\ lock_owner' = ReleaseLock(p)
    /\ response' = [response EXCEPT ![p] = Returned(p)]
    /\ pc' = [pc EXCEPT ![p] = "done"]
    /\ UNCHANGED <<request, exc, user_locks, locks_dict_lock, user_lock,
                   db, user_session, current_index, client, ia_reply,
                   last_global_replies, faults, calls, rotations, loaded,
                   saved, locks_made, db0, width,
                   index0, replies0, added>>

\* A step of the thread that serves request p.
Thread(p) ==
        \/ Validate(p)
        \/ AcquireRegistryLock(p)
        \/ RegistryCheck(p)
        \/ RegistryCreate(p)
        \/ RegistryRead(p)
        \/ AcquireUserLock(p)
        \/ Load(p)
        \/ Handle(p)
        \/ Chat1(p)
        \/ Rotate(p)
        \/ GetClient2(p)
        \/ Chat2(p)
        \/ Post(p)
        \/ GlobalAdd(p)
        \/ GlobalLen(p)
        \/ GlobalPop(p)
        \/ Save(p)
        \/ Exit(p)

Next == \E p \in Procs : Thread(p)

Spec == Init /\ [][Next]_vars

\* The request has its answer (or was never sent).
Answered(p) == pc[p] \in {"off", "done"}

\* ENABLED Thread(p) written out: a step is guarded by the position of
\* the thread alone, except the two acquire() calls (lines 357 and 361),
\* which wait until the lock is free.
Runnable(p) ==
    /\ ~Answered(p)
    /\ pc[p] = "registry" => RegistryLockFree
    /\ pc[p] = "user_lock" => UserLockFree(p)

\* The threads of waitress are scheduled by the operating system: a thread
\* that can take a step (the database and the chat API return) takes it.
\* This is WF_vars(Thread(p)) with Runnable(p) for ENABLED <<Thread(p)>>_vars.
Fairness ==
    \A p \in Procs : []<>(~Runnable(p)) \/ []<><<Thread(p)>>_vars

FairSpec == ExitInit /\ [][Next]_vars /\ Fairness

(***************************************************************************)
(* Notions the properties share.                                           *)
(***************************************************************************)
\* Request p is one handle_chat processes: both fields non-empty, user_id
\* a str that is not blocklisted.
Processed(p) ==
    /\ request[p].raw = "json" /\ request[p].kind = "obj"
    /\ Truthy(request[p].user_id) /\ Truthy(request[p].message)
    /\ request[p].user_id.t = "str"
    /\ Lower(Strip(request[p].user_id.v)) \notin IGNORED_USERS

\* Request p holds its user's lock: it is between "with user_lock" and its
\* end, the critical section around get_user_history .. save_user_history.
CriticalSteps == {"load", "handle", "chat1", "rotate", "client2", "chat2",
                  "post", "global_add", "global_len", "global_pop", "save",
                  "exit"}
InCritical(p) == pc[p] \in CriticalSteps

\* The two entries of the exchange of a request that has its reply.
Exchange(p) ==
    <<Entry("USER", user_message(p)), Entry("CHATBOT", ia_reply[p])>>

IsPrefix(a, b) == Len(a) <= Len(b) /\ SubSeq(b, 1, Len(a)) = a

\* The orders (sequences without repetition) of the elements of set S.
Orders(S) ==
    { o \in [1..Cardinality(S) -> S] :
        \A i, j \in 1..Cardinality(S) : i # j => o[i] # o[j] }

\* The exchanges of the requests of order o, one after the other.
RECURSIVE Exchanges(_, _)
Exchanges(o, n) ==
    IF n = 0 THEN << >> ELSE Exchanges(o, n - 1) \o Exchange(o[n])

\* The requests of user u whose save was committed.
Saved(u) ==
    { p \in Procs : Processed(p) /\ user_id(p) = u /\ Committed(saved[p]) }
AllReturned == \A p \in Procs : pc[p] \in {"done", "off"}

(***************************************************************************)
(* C1.  Requests of one user are serialized: once the requests have        *)
(* returned, the stored history of every user is the history before them   *)
(* followed by the exchanges (USER entry, CHATBOT entry) of the requests   *)
(* of that user whose reply was saved, whole and one request after the     *)
(* other in some order.  For two concurrent requests of one user: the      *)
(* history before, then the two entries of one, then the two of the other. *)
(***************************************************************************)
C1_SerializedHistory ==
    AllReturned =>
        \A u \in Users :
            \E o \in Orders(Saved(u)) :
                get_user_history(db, u).history
                    = get_user_history(db0, u).history
                      \o Exchanges(o, Cardinality(Saved(u)))

\* Two concurrent generative requests of a user with a stored history have
\* both saved and returned.
C1_Witness ==
    \E p, q \in Procs :
        /\ p # q /\ AllReturned
        /\ {p, q} \subseteq Saved("u1")
        /\ calls[p] # << >>
        /\ get_user_history(db0, "u1").history # << >>
        /\ Len(get_user_history(db, "u1").history)
              = Len(get_user_history(db0, "u1").history) + 4

(***************************************************************************)
(* C2.  At most one request per user_id is inside the critical section;    *)
(* the registry makes exactly one lock per user_id, every request of that  *)
(* user_id obtains that lock, and an entry of user_locks is never replaced *)
(* or removed: the lock made for a user_id stays the entry of user_locks.  *)
(***************************************************************************)
C2_OneHolderPerUser ==
    /\ \A p, q \in Procs :
          (p # q /\ InCritical(p) /\ InCritical(q))
              => user_id(p) # user_id(q)
    /\ \A m1, m2 \in locks_made : m1[1] = m2[1] => m1[2] = m2[2]
    /\ \A m \in locks_made : user_locks[m[1]] = m[2]
    /\ \A p \in Procs :
          (pc[p] = "user_lock" \/ InCritical(p))
              => /\ user_lock[p] # 0
                 /\ user_lock[p] = user_locks[user_id(p)]
                 /\ <<user_id(p), user_lock[p]>> \in locks_made

\* Two requests of a user_id without a lock entry arrived together: one is
\* in the critical section, the other waits for the same lock.
C2_Witness ==
    \E p, q \in Procs :
        /\ p # q /\ user_id(p) = "u2" /\ user_id(q) = "u2"
        /\ pc[p] = "save" /\ pc[q] = "user_lock"
        /\ user_lock[p] = user_lock[q]

(***************************************************************************)
(* C3.  A handled request (trigger or generative) whose save succeeded     *)
(* appends exactly its exchange: the history the next get_user_history     *)
(* returns is the history the request loaded followed by the USER entry    *)
(* with the inbound message and the CHATBOT entry with the reply returned  *)
(* to the client; later, that history stays a prefix of the stored one.    *)
(***************************************************************************)
C3_AppendOnly ==
    \A p \in Procs :
        saved[p] = "ok" =>
            /\ pc[p] = "exit" =>
                  /\ Returned(p).status = 200
                  /\ get_user_history(db, user_id(p)).history
                        = loaded[p].history
                          \o <<Entry("USER", user_message(p)),
                               Entry("CHATBOT", Returned(p).text)>>
            /\ pc[p] = "done" =>
                  /\ response[p] = [status |-> 200, text |-> ia_reply[p]]
                  /\ IsPrefix(loaded[p].history \o Exchange(p),
                              get_user_history(db, user_id(p)).history)

\* A generative request has saved its exchange after a stored history.
C3_Witness ==
    \E p \in Procs :
        /\ pc[p] = "exit" /\ saved[p] = "ok"
        /\ calls[p] # << >>
        /\ Len(loaded[p].history) >= 2
        /\ Len(get_user_history(db, user_id(p)).history)
              = Len(loaded[p].history) + 2

(***************************************************************************)
(* C4.  Trigger matching short-circuits.  A processed request whose        *)
(* message contains a trigger phrase of PREDEFINED_RESPONSES never calls   *)
(* the chat API, never rotates the key (the index moves in Rotate only)    *)
(* and never reaches a step of the generative pipeline (the global reply   *)
(* set is written in GlobalAdd and GlobalPop only); its session keeps the  *)
(* memories it loaded, and so does the row it saves; the reply it returns  *)
(* is the literal configured for the first trigger, in the order of the    *)
(* dict, that the message contains, with no rule of the sanitizer applied. *)
(***************************************************************************)
ContainedTriggers(message) ==
    { k \in 1..Len(PREDEFINED_RESPONSES) :
        Contains(PREDEFINED_RESPONSES[k].trigger, message) }

TriggerRequest(p) ==
    /\ Processed(p) /\ request[p].message.t = "str"
    /\ ContainedTriggers(user_message(p)) # {}

FirstTrigger(message) ==
    CHOOSE k \in ContainedTriggers(message) :
        \A j \in ContainedTriggers(message) : k <= j

C4_TriggerShortCircuits ==
    \A p \in Procs :
        TriggerRequest(p) =>
            /\ calls[p] = << >> /\ rotations[p] = 0
            /\ pc[p] \notin {"chat1", "rotate", "client2", "chat2", "post",
                             "global_add", "global_len", "global_pop"}
            /\ pc[p] \in {"handle", "save", "exit"} =>
                  user_session[p].memories = loaded[p].memories
            /\ (pc[p] = "exit" /\ saved[p] = "ok") =>
                  get_user_history(db, user_id(p)).memories
                     = loaded[p].memories
            /\ (pc[p] = "done" /\ response[p].status = 200) =>
                  response[p].text
                     = PREDEFINED_RESPONSES[
                          FirstTrigger(user_message(p))].response
            /\ (\A q \in Procs \ {p} : rotations[q] = 0) =>
                  current_index = index0
            /\ (\A q \in Procs \ {p} : calls[q] = << >>) =>
                  last_global_replies = replies0

\* A trigger request of a user whose last reply carried an emoji and who
\* has memories has saved and returned its literal.
C4_Witness ==
    \E p \in Procs :
        /\ TriggerRequest(p) /\ pc[p] = "done" /\ saved[p] = "ok"
        /\ response[p].status = 200
        /\ loaded[p].emoji_last_message /\ loaded[p].memories # << >>
        /\ last_global_replies = {}

(***************************************************************************)
(* C5.  Trigger matching is case-insensitive: a processed request whose    *)
(* message contains a trigger phrase in whatever letter case returns, when *)
(* it succeeds, the response configured for a trigger.                     *)
(***************************************************************************)
TriggersAnyCase(message) ==
    { k \in 1..Len(PREDEFINED_RESPONSES) :
        Contains(Lower(PREDEFINED_RESPONSES[k].trigger), Lower(message)) }

C5_CaseInsensitiveTrigger ==
    \A p \in Procs :
        ( /\ pc[p] = "done" /\ response[p].status = 200
          /\ Processed(p) /\ request[p].message.t = "str"
          /\ TriggersAnyCase(user_message(p)) # {} )
            => \E k \in TriggersAnyCase(user_message(p)) :
                  response[p].text = PREDEFINED_RESPONSES[k].response

(***************************************************************************)
(* C6.  A request makes at most two calls to the chat API and rotates the  *)
(* key at most once.  A second call is made only after the first failed    *)
(* with an error other than model-not-found, and after exactly one         *)
(* rotate_to_next_key; a first call that succeeded or failed with          *)
(* model-not-found is the only call, with no rotation; after the second    *)
(* call there is no call and no rotation.  The index has moved by the      *)
(* rotations of the requests and by nothing else.                          *)
(***************************************************************************)
RECURSIVE TotalRotations(_)
TotalRotations(S) ==
    IF S = {} THEN 0
    ELSE LET p == CHOOSE x \in S : TRUE
         IN  rotations[p] + TotalRotations(S \ {p})

PastCalls(p) == pc[p] \in {"post", "global_add", "global_len",
                            "global_pop", "save", "exit", "done"}

C6_AtMostOneRetry ==
    /\ current_index = (index0 + TotalRotations(Procs)) % NumKeys
    /\ \A p \in Procs :
        /\ Len(calls[p]) <= 2 /\ rotations[p] <= 1
        /\ Len(calls[p]) = 2 =>
              /\ calls[p][1].kind = "Exception" /\ rotations[p] = 1
              /\ PastCalls(p)
        /\ (Len(calls[p]) = 1 /\ PastCalls(p)) =>
              /\ calls[p][1].kind \in {"ok", "NotFoundError"}
              /\ rotations[p] = 0
        /\ (Len(calls[p]) = 1 /\ ~PastCalls(p)) =>
              /\ calls[p][1].kind = "Exception"
              /\ \/ pc[p] = "rotate" /\ rotations[p] = 0
                 \/ pc[p] \in {"client2", "chat2"} /\ rotations[p] = 1
        /\ calls[p] = << >> => rotations[p] = 0

\* A request whose two calls both failed has returned, the key rotated.
C6_Witness ==
    \E p \in Procs :
        /\ pc[p] = "done" /\ Len(calls[p]) = 2
        /\ calls[p][2].kind = "NotFoundError"
        /\ response[p].status = 200
        /\ current_index # index0

(***************************************************************************)
(* C7.  The reply pipeline always ends in a reply: a processed request     *)
(* whose load succeeded, whatever its message text and whatever the chat   *)
(* API does, raises nothing inside the pipeline (the only exception a      *)
(* request can end with is a fault of the database) and reaches the save   *)
(* with a non-empty reply.                                                 *)
(***************************************************************************)
C7_PipelineAlwaysReplies ==
    \A p \in Procs :
        (Processed(p) /\ request[p].message.t = "str") =>
            /\ exc[p] \in {"", "OperationalError"}
            /\ pc[p] = "save" => ia_reply[p] # ""

(***************************************************************************)
(* C8.  A request rejected before processing (user_id or message missing   *)
(* or empty, or user_id blocklisted) returns at once and mutates nothing:  *)
(* it makes no lock and no API call, rotates no key and saves nothing; no  *)
(* lock entry and no row appears for its key unless a processed request    *)
(* has that key; and while every request so far is a rejected one, the     *)
(* table, the lock registry, the key index and the global reply set are    *)
(* those of the initial state.                                             *)
(***************************************************************************)
RejectedInput(p) ==
    /\ request[p].raw = "json" /\ request[p].kind = "obj"
    /\ \/ ~Truthy(request[p].user_id)
       \/ ~Truthy(request[p].message)
       \/ /\ request[p].user_id.t = "str"
          /\ Lower(Strip(request[p].user_id.v)) \in IGNORED_USERS

C8_RejectedMutatesNothing ==
    /\ \A p \in Procs :
          RejectedInput(p) =>
              /\ pc[p] = "done"
              /\ response[p] \in
                    { [status |-> 400, text |-> "Error: faltan par{metros"],
                      [status |-> 200, text |-> "Ignorado"] }
              /\ calls[p] = << >> /\ rotations[p] = 0 /\ saved[p] = "none"
              /\ user_lock[p] = 0 /\ locks_dict_lock # p
              /\ \A l \in Procs : lock_owner[l] # p
              /\ \A m \in locks_made : m[2] # p
              /\ ( /\ request[p].user_id.t = "str"
                   /\ \A q \in Procs \ {p} :
                         ~(Processed(q) /\ user_id(q) = user_id(p)) )
                    => /\ user_locks[user_id(p)] = 0
                       /\ db[user_id(p)] = db0[user_id(p)]
    /\ (\A q \in Active : pc[q] = "start" \/ RejectedInput(q)) =>
          /\ db = db0
          /\ user_locks = [u \in UserIds |-> 0] /\ locks_made = {}
          /\ current_index = index0
          /\ last_global_replies = replies0

\* A blocklisted request, its user_id in another case and padded, and a
\* request without message have both returned, over a table with rows.
C8_Witness ==
    \E p, q \in Procs :
        /\ p # q /\ pc[p] = "done" /\ pc[q] = "done"
        /\ RejectedInput(p) /\ RejectedInput(q)
        /\ request[p].user_id = JStr("\tGame Of Thrones")
        /\ response[p].text = "Ignorado"
        /\ request[q].user_id = JStr("u1") /\ response[q].status = 400
        /\ db0["u1"].exists /\ db = db0

(***************************************************************************)
(* C9.  Every request with missing or malformed input is answered with     *)
(* status 400: an empty body, a body that is no JSON, a JSON value that is *)
(* no object, an object without user_id or message or with an empty one,   *)
(* an object whose user_id is no string.                                   *)
(***************************************************************************)
MalformedInput(p) ==
    \/ request[p].raw \in {"empty", "control", "notjson"}
    \/ request[p].raw = "json" /\ request[p].kind # "obj"
    \/ /\ request[p].raw = "json" /\ request[p].kind = "obj"
       /\ \/ ~Truthy(request[p].user_id)
          \/ ~Truthy(request[p].message)
          \/ request[p].user_id.t # "str"

C9_MalformedIs400 ==
    \A p \in Procs :
        (MalformedInput(p) /\ pc[p] = "done") => response[p].status = 400

(***************************************************************************)
(* C10.  A failure of save_user_history never costs the client the reply:  *)
(* when the save fails (connection, upsert statement or commit), the       *)
(* request still returns the reply it produced, with status 200.           *)
(***************************************************************************)
C10_SaveFailureKeepsReply ==
    \A p \in Procs :
        (pc[p] = "done" /\ saved[p] \in {"connect", "execute", "commit"})
            => response[p] = [status |-> 200, text |-> ia_reply[p]]

(***************************************************************************)
(* C11.  The final reply of a generative request never contains a          *)
(* deny-listed term (a word of FORBIDDEN_WORDS, a substring of             *)
(* FORBIDDEN_SOCIALS), whatever the chat API returned and whatever the     *)
(* message and the stored memories are: no step after the deny-list test   *)
(* puts such a term into the reply that is saved and returned.             *)
(***************************************************************************)
GenerativeRequest(p) == Processed(p) /\ calls[p] # << >>

C11_ReplyNeverDenyListed ==
    \A p \in Procs :
        (GenerativeRequest(p) /\ pc[p] \in {"save", "exit", "done"}
            /\ exc[p] # "IndexError")
            => ~contains_forbidden_word(ia_reply[p])

(***************************************************************************)
(* C12.  Anti-repetition: when the history a generative request loaded     *)
(* holds a CHATBOT line and the text the chat API call left, as the test   *)
(* of line 293 sees it, is exactly the last one, the reply that is saved   *)
(* and returned is non-empty and differs from that line, whatever the      *)
(* draws of the random module.                                             *)
(***************************************************************************)
LastCall(p) == calls[p][Len(calls[p])]

\* ia_reply when the calls are over (lines 275, 277, 288, 290): the text
\* of the call that returned, stripped, or the fixed text of the failure.
ApiReply(p) ==
    IF LastCall(p).kind = "ok" THEN Strip(LastCall(p).text)
    ELSE IF Len(calls[p]) = 1 THEN MODEL_GONE_REPLY
    ELSE API_FAILED_REPLY

\* Lines 292-293: "ia_reply == last_bot_message", after the re.sub, in a
\* request that went on to produce its reply.
ApiRepeatsLastLine(p) ==
    /\ GenerativeRequest(p) /\ request[p].message.t = "str"
    /\ pc[p] \in {"save", "exit", "done"} /\ exc[p] # "IndexError"
    /\ LastBotMessage(loaded[p].history).some
    /\ CollapseMarks(ApiReply(p)) = LastBotMessage(loaded[p].history).val

C12_AntiRepetition ==
    \A p \in Procs :
        ApiRepeatsLastLine(p) =>
            /\ ia_reply[p] # ""
            /\ ia_reply[p] # LastBotMessage(loaded[p].history).val

(***************************************************************************)
(* C13.  With at least two keys, the second call of a request is made with *)
(* the key that follows, round-robin, the key of its failed first call,    *)
(* and so never with the same key, under every interleaving with the       *)
(* requests of other users.                                                *)
(***************************************************************************)
NextKey(k) == (k + 1) % NumKeys

C13_RetryWithNextKey ==
    \A p \in Procs :
        (NumKeys >= 2 /\ Len(calls[p]) = 2) =>
            /\ calls[p][2].key = NextKey(calls[p][1].key)
            /\ calls[p][2].key # calls[p][1].key

(***************************************************************************)
(* C14.  Emoji alternation: a generative reply flips the flag              *)
(* emoji_last_message of its user, and the reply agrees with the new flag: *)
(* it contains an emoji when the flag becomes true and no emoji at all,    *)
(* none of RANDOM_EMOJIS in particular, when the flag becomes false,       *)
(* whatever the chat API returned.  The stored flag is the new flag once   *)
(* the request, still holding the lock, has saved.                         *)
(***************************************************************************)
\* The emoji of the texts: those EMOJI_PATTERN matches and U+1F97A.
Emojis == EMOJI_PATTERN \cup {"~"}

HasEmoji(s) == \E i \in 1..Len(s) : CharAt(s, i) \in Emojis

ReplyProduced(p) ==
    /\ GenerativeRequest(p) /\ request[p].message.t = "str"
    /\ pc[p] \in {"save", "exit", "done"} /\ exc[p] # "IndexError"

C14_EmojiAlternation ==
    \A p \in Procs :
        ReplyProduced(p) =>
            /\ user_session[p].emoji_last_message
                  = ~loaded[p].emoji_last_message
            /\ user_session[p].emoji_last_message <=> HasEmoji(ia_reply[p])
            /\ (pc[p] = "exit" /\ saved[p] = "ok") =>
                  get_user_history(db, user_id(p)).emoji_last_message
                     = ~loaded[p].emoji_last_message

(***************************************************************************)
(* C15.  The stored memories of every user are at most 5 and are trimmed   *)
(* first-in first-out: the memories a generative request saves are the     *)
(* most recent ones it loaded, in their order, followed by the facts it    *)
(* extracted from the message, in the order of extraction (likes, origin,  *)
(* job), also when one message yields several facts.                       *)
(***************************************************************************)
MemoryPhrases == <<"me gusta", "soy de", "trabajo en">>
MemoryPrefixes == <<"le gusta ", "es de ", "trabaja en ">>

\* The fact of phrase k: the text after its first occurrence, stripped.
Fact(message, k) ==
    LET at == Find(MemoryPhrases[k], message)
    IN  MemoryPrefixes[k]
        \o Strip(SubSeq(message, at + Len(MemoryPhrases[k]), Len(message)))

RECURSIVE FactsFrom(_, _)
FactsFrom(message, k) ==
    IF k > Len(MemoryPhrases) THEN << >>
    ELSE (IF Contains(MemoryPhrases[k], Lower(message))
          THEN <<Fact(message, k)>> ELSE << >>)
         \o FactsFrom(message, k + 1)

Facts(message) == FactsFrom(message, 1)

C15_MemoriesCappedFifo ==
    /\ \A u \in UserIds :
          Len(get_user_history(db, u).memories) <= MEMORIES_KEPT
    /\ \A p \in Procs :
          ReplyProduced(p) =>
              LET old == loaded[p].memories
                  new == user_session[p].memories
                  facts == Facts(user_message(p))
                  kept == Len(new) - Len(facts)
              IN  /\ Len(new) = Min(Len(old) + Len(facts), MEMORIES_KEPT)
                  /\ kept >= 0 /\ kept <= Len(old)
                  /\ \A i \in 1..kept :
                        new[i] = old[Len(old) - kept + i]
                  /\ \A i \in 1..Len(facts) : new[kept + i] = facts[i]
                  /\ (pc[p] = "exit" /\ saved[p] = "ok") =>
                        get_user_history(db, user_id(p)).memories = new

\* A message with two facts has been saved for a user who had four
\* memories: the oldest one is gone, the two facts are the last.
C15_Witness ==
    \E p \in Procs :
        /\ ReplyProduced(p) /\ pc[p] = "exit" /\ saved[p] = "ok"
        /\ Len(loaded[p].memories) = MEMORIES_KEPT - 1
        /\ Len(Facts(user_message(p))) = 2
        /\ get_user_history(db, user_id(p)).memories
              = Tail(loaded[p].memories) \o Facts(user_message(p))

(***************************************************************************)
(* C16.  Eviction from last_global_replies removes the oldest entry: the   *)
(* reply a request has added is still in the set when the request          *)
(* finishes, also when its addition took the set over the cap of 20.       *)
(***************************************************************************)
C16_AddedReplySurvives ==
    \A p \in Procs :
        (added[p].some /\ pc[p] \in {"save", "exit", "done"}
            /\ \A q \in Procs \ {p} : ~added[q].some)
            => added[p].val \in last_global_replies

\* The requests between line 319 (add) and lines 320-321 (len, pop).
BetweenAddAndPop == { p \in Procs : pc[p] \in {"global_len", "global_pop"} }

(***************************************************************************)
(* C17.  last_global_replies is bounded under concurrency: it holds at     *)
(* most 20 entries more than there are requests between their add and     *)
(* their size test or pop, so at most 20 in every state where no request   *)
(* is between the two, whatever the interleaving of the requests.          *)
(***************************************************************************)
C17_GlobalSetBounded ==
    /\ Cardinality(last_global_replies)
          <= GLOBAL_REPLIES_CAP + Cardinality(BetweenAddAndPop)
    /\ BetweenAddAndPop = {} =>
          Cardinality(last_global_replies) <= GLOBAL_REPLIES_CAP

\* Two requests of different users have each added a reply to the set at
\* its cap and are both before their pop.
C17_Witness ==
    \E p, q \in BetweenAddAndPop :
        /\ user_id(p) # user_id(q)
        /\ added[p].val # added[q].val
        /\ Cardinality(replies0) = GLOBAL_REPLIES_CAP
        /\ Cardinality(last_global_replies) = GLOBAL_REPLIES_CAP + 2

\* The locks in a state: who may hold which, and that some thread can run.
LocksSafe ==
    /\ \A p \in Procs :
          /\ Answered(p) =>
                (\A l \in Procs : lock_owner[l] # p) /\ locks_dict_lock # p
          /\ locks_dict_lock = p =>
                pc[p] \in {"reg_check", "reg_create", "reg_read"}
          /\ (\E l \in Procs : lock_owner[l] = p) =>
                InCritical(p) /\ lock_owner[user_lock[p]] = p
          /\ ( /\ pc[p] = "user_lock"
               /\ \A q \in Procs \ {p} :
                     InCritical(q) => user_id(q) # user_id(p) )
                => UserLockFree(p)
    /\ (\E p \in Procs : ~Answered(p)) => (\E p \in Procs : Runnable(p))

(***************************************************************************)
(* C18.  Locks never wedge the service.  The lock of a user is released on *)
(* every exit of the critical section, by return or by exception; the      *)
(* registry lock is held for the lookup and creation of the entry only,    *)
(* never by a request that waits for or holds a user lock; a request is    *)
(* never kept waiting by requests of other users; some thread can take a   *)
(* step as long as a request is not answered; and, the threads being       *)
(* scheduled fairly, a request waiting for the lock of its user gets it    *)
(* and every request is answered.                                          *)
(***************************************************************************)
C18_LocksNeverWedge ==
    /\ []LocksSafe
    /\ \A p \in Procs :
          /\ (pc[p] = "user_lock") ~> InCritical(p)
          /\ (pc[p] = "start") ~> (pc[p] = "done")

\* A request has been answered with the error of a failed load while a
\* second request of the same user waited, and the second one has the lock.
C18_Witness ==
    \E p, q \in Procs :
        /\ p # q /\ user_id(p) = user_id(q)
        /\ pc[p] = "done" /\ response[p] = ServerError
        /\ exc[p] = "OperationalError" /\ saved[p] = "none"
        /\ user_lock[p] = user_lock[q]
        /\ InCritical(q) /\ lock_owner[user_lock[q]] = q

\* Even length, roles USER, CHATBOT, USER, CHATBOT, ...
WellFormed(history) ==
    /\ Len(history) % 2 = 0
    /\ \A i \in 1..Len(history) :
          history[i].role = IF i % 2 = 1 THEN "USER" ELSE "CHATBOT"

(***************************************************************************)
(* C19.  The stored history of every user_id has even length and its roles *)
(* alternate USER, CHATBOT, ... starting with USER, in every reachable     *)
(* state, under any interleaving of trigger and generative requests.       *)
(***************************************************************************)
C19_HistoryWellFormed ==
    \A u \in UserIds : WellFormed(db[u].history)

\* A user without a row has had a trigger request and a generative
\* request saved, in either order, and the row holds the two exchanges.
C19_Witness ==
    \E u \in UserIds : \E p, q \in Saved(u) :
        /\ ~db0[u].exists
        /\ TriggerRequest(p) /\ GenerativeRequest(q)
        /\ Len(db[u].history) = 4

\* The request has left, or will leave, handle_chat by "except Exception".
Failed(p) == exc[p] # "" \/ (pc[p] = "done" /\ response[p] = ServerError)

\* The exception came from the reply pipeline (lines 363 and 370).
FailedInPipeline(p) == exc[p] \in {"TypeError", "IndexError"}

\* Failed(p), after get_user_history had returned the row of the user.
FailedAfterLoad(p) == FailedInPipeline(p) \/ SaveRaises(saved[p])

\* Failed(p) with the commit of the save not reached: the request was
\* refused by an exception of the validation, or it failed in
\* get_user_history, in the reply pipeline or in get_db_connection of
\* save_user_history.  (conn.close() of line 227 raises after the commit.)
FailedBeforeCommit(p) == Failed(p) /\ saved[p] # "close"

(***************************************************************************)
(* C20.  A failed request leaves the store unchanged.  A request answered  *)
(* with status 500 "Error en el servidor" whose exception came from        *)
(* get_user_history, from the reply pipeline or from opening the           *)
(* connection of save_user_history has committed nothing: when it leaves   *)
(* the lock of its user the row of the user is the one it loaded.  No      *)
(* partial exchange is ever stored: the row of every user_id is the row    *)
(* before the requests or the whole session (history with the complete     *)
(* exchange, flag, memories) of a request whose commit returned.           *)
(***************************************************************************)
C20_FailedLeavesStore ==
    /\ \A p \in Procs :
          FailedBeforeCommit(p) =>
             /\ ~Committed(saved[p])
             /\ pc[p] = "done" => response[p] = ServerError
             /\ (FailedAfterLoad(p) /\ pc[p] = "exit") =>
                   get_user_history(db, user_id(p)) = loaded[p]
    /\ \A u \in UserIds :
          IF Saved(u) = {}
          THEN db[u] = db0[u]
          ELSE \E p \in Saved(u) :
                  /\ WellFormed(user_session[p].history)
                  /\ db[u] = save_user_history(db, u, user_session[p])[u]

\* A request was answered 500 after update_memories had appended a fact
\* to its session and then raised: the row of its user, which exists, is
\* still the one it loaded, without the fact.
C20_Witness ==
    \E p \in Procs :
        /\ pc[p] = "done" /\ response[p] = ServerError
        /\ exc[p] = "IndexError"
        /\ user_session[p].memories # loaded[p].memories
        /\ db0[user_id(p)].exists
        /\ get_user_history(db, user_id(p)) = loaded[p]
====
